---- MODULE Spec2Model ----
(***************************************************************************)
(* The no-delete-var lint rule (src/rules/no_delete_var.rs): a visitor     *)
(* over a parsed program that reports every `delete <identifier>` it is    *)
(* handed.  The syntax tree is built from a token-like source form, every  *)
(* node carrying its span; lint_program walks it with an explicit stack of *)
(* pending visits, one action per visit method.                            *)
(***************************************************************************)
EXTENDS Integers, Sequences, FiniteSets, TLC

\* ------------------------------------------------------------------------
\* Bounds of the model.
\* ------------------------------------------------------------------------

\* Size of a source: one unit per statement plus one per expression
\* constructor wrapped around the statement's identifier.
MaxCost == 4

\* Number of lint_program calls in one behaviour.
MaxRuns == 2

\* ------------------------------------------------------------------------
\* Constants of the rule.
\* ------------------------------------------------------------------------

CODE == "no-delete-var"

NoDeleteVarMessage == "Variables shouldn't be deleted"

NoDeleteVarHint == "Remove the deletion statement"

\* ------------------------------------------------------------------------
\* The syntax tree (swc_ecmascript::ast as the rule uses it).
\* ------------------------------------------------------------------------

\* UnaryOp: every operator of a unary expression.
UnaryOp == {"Minus", "Plus", "Bang", "Tilde", "TypeOf", "Void", "Delete"}

\* Source text of each operator; keyword operators are followed by a blank.
OpText(op) ==
  CASE op = "Minus" -> "-"
    [] op = "Plus" -> "+"
    [] op = "Bang" -> "!"
    [] op = "Tilde" -> "~"
    [] op = "TypeOf" -> "typeof "
    [] op = "Void" -> "void "
    [] op = "Delete" -> "delete "

\* The name the sources declare and use, as in the rule's test.
VarName == "someVar"

\* Expression constructors a source may wrap around the identifier: the
\* unary operators, member access (`e.a`), parentheses (`(e)`), a call with
\* the expression as its argument (`f(e)`) and a function expression with
\* the expression as its body's statement (`function(){e;}`).
Wrappers == UnaryOp \cup {"Member", "Paren", "Call", "Fn"}

\* Declaration forms and initialisers of the optional leading declaration.
DeclKinds == {"var", "let", "const"}

DeclInits == {"Str", "Object"}

InitText(init) == IF init = "Str" THEN "\"someVar\"" ELSE "{ a: 1 }"

\* Expr: the tree of the expression written as the wrappers `chain`
\* (outermost first) around the identifier, starting at offset lo.
RECURSIVE ParseExpr(_, _)
ParseExpr(chain, lo) ==
  IF chain = <<>>
    THEN [kind |-> "Ident", sym |-> VarName, span |-> <<lo, lo + Len(VarName)>>]
    ELSE LET w == Head(chain)
             rest == Tail(chain)
         IN CASE w \in UnaryOp ->
                   LET arg == ParseExpr(rest, lo + Len(OpText(w)))
                   IN [kind |-> "Unary", op |-> w, arg |-> arg,
                       span |-> <<lo, arg.span[2]>>]
              [] w = "Paren" ->
                   LET e == ParseExpr(rest, lo + 1)
                   IN [kind |-> "Paren", expr |-> e,
                       span |-> <<lo, e.span[2] + 1>>]
              [] w = "Member" ->
                   LET obj == ParseExpr(rest, lo)
                   IN [kind |-> "Member", obj |-> obj,
                       prop |-> [kind |-> "Ident", sym |-> "a",
                                 span |-> <<obj.span[2] + 1, obj.span[2] + 2>>],
                       span |-> <<lo, obj.span[2] + 2>>]
              [] w = "Call" ->
                   LET a == ParseExpr(rest, lo + 2)
                   IN [kind |-> "Call",
                       callee |-> [kind |-> "Ident", sym |-> "f",
                                   span |-> <<lo, lo + 1>>],
                       args |-> <<a>>,
                       span |-> <<lo, a.span[2] + 1>>]
              [] w = "Fn" ->
                   LET e == ParseExpr(rest, lo + Len("function(){"))
                   IN [kind |-> "Fn",
                       body |-> <<[kind |-> "ExprStmt", expr |-> e,
                                   span |-> <<e.span[1], e.span[2] + 1>>]>>,
                       span |-> <<lo, e.span[2] + 2>>]

\* Stmt::Expr: the expression followed by its semicolon.
ParseExprStmt(chain, lo) ==
  LET e == ParseExpr(chain, lo)
  IN [kind |-> "ExprStmt", expr |-> e, span |-> <<lo, e.span[2] + 1>>]

\* Stmt::Decl(Decl::Var): `<kind> someVar = <init>;`.
ParseVarDecl(d, lo) ==
  LET nameLo == lo + Len(d.kind) + 1
      initLo == nameLo + Len(VarName) + 3
      initHi == initLo + Len(InitText(d.init))
  IN [kind |-> "VarDecl", declKind |-> d.kind,
      name |-> [kind |-> "Ident", sym |-> VarName,
                span |-> <<nameLo, nameLo + Len(VarName)>>],
      init |-> IF d.init = "Str"
                 THEN [kind |-> "Lit", span |-> <<initLo, initHi>>]
                 ELSE [kind |-> "Object",
                       props |-> <<[kind |-> "Lit",
                                    span |-> <<initLo + 5, initLo + 6>>]>>,
                       span |-> <<initLo, initHi>>],
      span |-> <<lo, initHi + 1>>]

\* The statements of a source from offset lo on, one blank between two.
RECURSIVE ParseStmts(_, _)
ParseStmts(src, lo) ==
  IF src = <<>>
    THEN <<>>
    ELSE LET s == IF Head(src).decl
                    THEN ParseVarDecl(Head(src), lo)
                    ELSE ParseExprStmt(Head(src).chain, lo)
         IN <<s>> \o ParseStmts(Tail(src), s.span[2] + 1)

Parse(src) == ParseStmts(src, 0)

\* ------------------------------------------------------------------------
\* The bounded set of sources.
\* ------------------------------------------------------------------------

Chains(n) == UNION {[1..k -> Wrappers] : k \in 0..n}

RECURSIVE ExprSources(_)
ExprSources(n) ==
  IF n <= 0
    THEN {<<>>}
    ELSE {<<>>} \cup
         UNION {{<<[decl |-> FALSE, chain |-> c]>> \o r :
                   r \in ExprSources(n - Len(c) - 1)} : c \in Chains(n - 1)}

Sources(n) ==
  ExprSources(n) \cup
  {<<[decl |-> TRUE, kind |-> k, init |-> i]>> \o r :
     k \in DeclKinds, i \in DeclInits, r \in ExprSources(n - 1)}

\* ------------------------------------------------------------------------
\* State.
\* ------------------------------------------------------------------------

VARIABLES
  body,         \* the statements of the parsed program, never written
  diagnostics,  \* context.diagnostics
  stack,        \* nodes the visitor still has to visit, next one first
  runs,         \* lint_program calls so far
  shape,        \* top-level shape handed to the current (or last) call
  start,        \* context.diagnostics when the current (or last) call began
  prev,         \* the call before: its shape, and the diagnostics around it
  visited       \* nodes visited by the current (or last) call, in order

vars == <<body, diagnostics, stack, runs, shape, start, prev, visited>>

NoRun == [type |-> "none", before |-> <<>>, after |-> <<>>]

\* ProgramRef::Module: every statement is a ModuleItem::Stmt.
AsModule(stmts) ==
  [kind |-> "Module",
   body |-> [i \in DOMAIN stmts |-> [kind |-> "ModuleItem", stmt |-> stmts[i]]]]

\* ProgramRef::Script.
AsScript(stmts) == [kind |-> "Script", body |-> stmts]

ProgramRef(stmts) == {AsModule(stmts), AsScript(stmts)}

\* ------------------------------------------------------------------------
\* Context.
\* ------------------------------------------------------------------------

\* Context::add_diagnostic_with_hint: one more diagnostic at the end.
add_diagnostic_with_hint(diags, span, code, message, hint) ==
  Append(diags, [span |-> span, code |-> code, message |-> message,
                 hint |-> hint])

\* ------------------------------------------------------------------------
\* The visitor.
\* ------------------------------------------------------------------------

Init ==
  /\ body \in {Parse(src) : src \in Sources(MaxCost)}
  /\ diagnostics = <<>>
  /\ stack = <<>>
  /\ runs = 0
  /\ shape = "none"
  /\ start = <<>>
  /\ prev = NoRun
  /\ visited = <<>>

Visiting(kind) == stack # <<>> /\ Head(stack).kind = kind

\* The visit of the node on top of the stack: it leaves the stack, the
\* given children are visited next, in order, before the node's siblings.
Visit(children, diags) ==
  /\ stack' = children \o Tail(stack)
  /\ visited' = Append(visited, Head(stack))
  /\ diagnostics' = diags
  /\ UNCHANGED <<body, runs, shape, start, prev>>

\* The contexts the driver may hand to a call: the one of the call before,
\* with its diagnostics, or a new one (Context::new), with none.
Contexts == {diagnostics, <<>>}

\* lint_program, as it would be if the visitor were given a context of its
\* own instead of the caller's.
lint_program_own_context(context, program) ==
  /\ stack = <<>>
  /\ runs < MaxRuns
  /\ stack' = <<program>>
  /\ runs' = runs + 1
  /\ shape' = program.kind
  /\ start' = context
  /\ prev' = IF runs = 0
               THEN NoRun
               ELSE [type |-> shape, before |-> start, after |-> diagnostics]
  /\ visited' = <<>>
  /\ diagnostics' = <<>>
  /\ UNCHANGED body

\* lint_program, as it would be if the script arm of the match visited
\* nothing.
lint_program_module_only(context, program) ==
  /\ stack = <<>>
  /\ runs < MaxRuns
  /\ stack' = IF program.kind = "Script" THEN <<>> ELSE <<program>>
  /\ runs' = runs + 1
  /\ shape' = program.kind
  /\ start' = context
  /\ prev' = IF runs = 0
               THEN NoRun
               ELSE [type |-> shape, before |-> start, after |-> diagnostics]
  /\ visited' = <<>>
  /\ diagnostics' = context
  /\ UNCHANGED body

\* NoDeleteVar::lint_program: a visitor on the context, entered at the
\* program's top-level shape.
lint_program(context, program) ==
  /\ stack = <<>>
  /\ runs < MaxRuns
  /\ stack' = <<program>>
  /\ runs' = runs + 1
  /\ shape' = program.kind
  /\ start' = context
  /\ prev' = IF runs = 0
               THEN NoRun
               ELSE [type |-> shape, before |-> start, after |-> diagnostics]
  /\ visited' = <<>>
  /\ diagnostics' = context
  /\ UNCHANGED body

visit_module ==
  /\ Visiting("Module")
  /\ Visit(Head(stack).body, diagnostics)

visit_script ==
  /\ Visiting("Script")
  /\ Visit(Head(stack).body, diagnostics)

visit_module_item ==
  /\ Visiting("ModuleItem")
  /\ Visit(<<Head(stack).stmt>>, diagnostics)

visit_expr_stmt ==
  /\ Visiting("ExprStmt")
  /\ Visit(<<Head(stack).expr>>, diagnostics)

visit_var_decl ==
  /\ Visiting("VarDecl")
  /\ Visit(<<Head(stack).name, Head(stack).init>>, diagnostics)

visit_ident ==
  /\ Visiting("Ident")
  /\ Visit(<<>>, diagnostics)

visit_lit ==
  /\ Visiting("Lit")
  /\ Visit(<<>>, diagnostics)

visit_object_lit ==
  /\ Visiting("Object")
  /\ Visit(Head(stack).props, diagnostics)

visit_member_expr ==
  /\ Visiting("Member")
  /\ Visit(<<Head(stack).obj, Head(stack).prop>>, diagnostics)

visit_paren_expr ==
  /\ Visiting("Paren")
  /\ Visit(<<Head(stack).expr>>, diagnostics)

visit_call_expr ==
  /\ Visiting("Call")
  /\ Visit(<<Head(stack).callee>> \o Head(stack).args, diagnostics)

visit_fn_expr ==
  /\ Visiting("Fn")
  /\ Visit(Head(stack).body, diagnostics)

\* visit_unary_expr, as it would be if it reported at the operand's span.
unary_expr_diagnostics_arg_span(unary_expr, diags) ==
  IF unary_expr.op # "Delete"
    THEN diags
    ELSE IF unary_expr.arg.kind = "Ident"
           THEN add_diagnostic_with_hint(diags, unary_expr.arg.span, CODE,
                                         NoDeleteVarMessage, NoDeleteVarHint)
           ELSE diags

\* visit_unary_expr, as it would be without the test of the operand.
unary_expr_diagnostics_any_operand(unary_expr, diags) ==
  IF unary_expr.op # "Delete"
    THEN diags
    ELSE add_diagnostic_with_hint(diags, unary_expr.span, CODE,
                                  NoDeleteVarMessage, NoDeleteVarHint)

\* visit_unary_expr, as it would be without the test of the operator.
unary_expr_diagnostics_any_op(unary_expr, diags) ==
  IF unary_expr.arg.kind = "Ident"
    THEN add_diagnostic_with_hint(diags, unary_expr.span, CODE,
                                  NoDeleteVarMessage, NoDeleteVarHint)
    ELSE diags

\* visit_unary_expr, as it would be if it reported every violation twice.
unary_expr_diagnostics_twice(unary_expr, diags) ==
  IF unary_expr.op # "Delete"
    THEN diags
    ELSE IF unary_expr.arg.kind = "Ident"
           THEN add_diagnostic_with_hint(
                  add_diagnostic_with_hint(diags, unary_expr.span, CODE,
                                           NoDeleteVarMessage, NoDeleteVarHint),
                  unary_expr.span, CODE, NoDeleteVarMessage, NoDeleteVarHint)
           ELSE diags

\* visit_unary_expr, as it would be if the rule remembered across calls
\* that it has reported already.
unary_expr_diagnostics_once(unary_expr, diags) ==
  IF unary_expr.op # "Delete" \/ runs > 1
    THEN diags
    ELSE IF unary_expr.arg.kind = "Ident"
           THEN add_diagnostic_with_hint(diags, unary_expr.span, CODE,
                                         NoDeleteVarMessage, NoDeleteVarHint)
           ELSE diags

\* NoDeleteVarVisitor::visit_unary_expr, the one method the rule overrides:
\* the diagnostics after the visit of unary_expr.  It visits no child.
unary_expr_diagnostics(unary_expr, diags) ==
  IF unary_expr.op # "Delete"
    THEN diags
    ELSE IF unary_expr.arg.kind = "Ident"
           THEN add_diagnostic_with_hint(diags, unary_expr.span, CODE,
                                         NoDeleteVarMessage, NoDeleteVarHint)
           ELSE diags

unary_expr_children(unary_expr) == <<>>

visit_unary_expr ==
  /\ Visiting("Unary")
  /\ Visit(unary_expr_children(Head(stack)),
           unary_expr_diagnostics(Head(stack), diagnostics))

Next ==
  \/ \E context \in Contexts, program \in ProgramRef(body) :
       lint_program(context, program)
  \/ visit_module
  \/ visit_script
  \/ visit_module_item
  \/ visit_expr_stmt
  \/ visit_var_decl
  \/ visit_ident
  \/ visit_lit
  \/ visit_object_lit
  \/ visit_member_expr
  \/ visit_paren_expr
  \/ visit_call_expr
  \/ visit_fn_expr
  \/ visit_unary_expr

Spec == Init /\ [][Next]_vars

\* ------------------------------------------------------------------------
\* The tree as the properties speak of it.
\* ------------------------------------------------------------------------

\* The children of a node, in source order.
Children(n) ==
  CASE n.kind \in {"Module", "Script", "Fn"} -> n.body
    [] n.kind = "ModuleItem" -> <<n.stmt>>
    [] n.kind = "ExprStmt" -> <<n.expr>>
    [] n.kind = "VarDecl" -> <<n.name, n.init>>
    [] n.kind = "Object" -> n.props
    [] n.kind = "Member" -> <<n.obj, n.prop>>
    [] n.kind = "Paren" -> <<n.expr>>
    [] n.kind = "Call" -> <<n.callee>> \o n.args
    [] n.kind = "Unary" -> <<n.arg>>
    [] OTHER -> <<>>

\* Every node of the trees ns, in pre-order.
RECURSIVE Nodes(_)
Nodes(ns) ==
  IF ns = <<>>
    THEN <<>>
    ELSE <<Head(ns)>> \o Nodes(Children(Head(ns))) \o Nodes(Tail(ns))

Range(s) == {s[i] : i \in DOMAIN s}

IsPrefix(s, t) == Len(s) <= Len(t) /\ SubSeq(t, 1, Len(s)) = s

IsUnary(n) == n.kind = "Unary"

IsDelete(n) == IsUnary(n) /\ n.op = "Delete"

\* A delete whose operand is an identifier.
Qualifying(n) == IsDelete(n) /\ n.arg.kind = "Ident"

\* The diagnostic the rule is to give for the node with this span.
Expected(span) ==
  [span |-> span, code |-> "no-delete-var",
   message |-> "Variables shouldn't be deleted",
   hint |-> "Remove the deletion statement"]

\* The qualifying nodes of the program, in source order.
Occurrences == SelectSeq(Nodes(body), Qualifying)

\* The diagnostics the current (or last) call has appended.
Findings == SubSeq(diagnostics, Len(start) + 1, Len(diagnostics))

\* The diagnostics the call before appended.
PrevFindings == SubSeq(prev.after, Len(prev.before) + 1, Len(prev.after))

\* A call has run to its end.
Done == runs > 0 /\ stack = <<>>

\* A call has run to its end, and so did one before it.
DoneTwice == Done /\ runs > 1

\* ------------------------------------------------------------------------
\* Properties.
\* ------------------------------------------------------------------------

\* The program is a declaration of the variable followed by `delete v;`.
DeclThenDelete ==
  /\ Len(body) = 2
  /\ body[1].kind = "VarDecl"
  /\ body[2].kind = "ExprStmt"
  /\ Qualifying(body[2].expr)

\* C1: for a declaration of v (var, let or const) followed by `delete v;`,
\* one call of lint_program appends exactly one diagnostic: code
\* "no-delete-var", the fixed message and hint, and the span of the whole
\* unary expression, neither the operand's nor the statement's.  For the
\* source of the rule's test the span starts at column 25.
C1_DeclThenDelete ==
  (Done /\ DeclThenDelete) =>
    /\ Findings = <<Expected(body[2].expr.span)>>
    /\ Findings[1].span # body[2].expr.arg.span
    /\ Findings[1].span # body[2].span
    /\ (body[1].declKind = "var" /\ body[1].init.kind = "Lit")
         => Findings[1].span[1] = 25

C1_Witness ==
  /\ Done
  /\ DeclThenDelete
  /\ body[1].declKind = "const"
  /\ Len(Findings) = 1

\* C2: a call of lint_program appends exactly one diagnostic per delete of
\* an identifier anywhere in the tree, in source order.
C2_TraversalComplete ==
  Done => Findings = [i \in DOMAIN Occurrences |-> Expected(Occurrences[i].span)]

\* The program is `var someVar = { a: 1 }; delete someVar.a;`.
DeclThenDeleteMember ==
  /\ Len(body) = 2
  /\ body[1].kind = "VarDecl"
  /\ body[1].declKind = "var"
  /\ body[1].init.kind = "Object"
  /\ body[2].kind = "ExprStmt"
  /\ IsDelete(body[2].expr)
  /\ body[2].expr.arg.kind = "Member"
  /\ body[2].expr.arg.obj.kind = "Ident"

\* The visitor is about to visit a delete whose operand is no identifier.
AtDeleteOfOther ==
  /\ stack # <<>>
  /\ IsDelete(Head(stack))
  /\ Head(stack).arg.kind # "Ident"

\* C3: the visit of a delete whose operand is not an identifier (a member
\* access or any other expression) appends no diagnostic, and a call on
\* `var obj = { a: 1 }; delete obj.a;` leaves the context as it was.
C3_NoFalsePositive ==
  /\ [][AtDeleteOfOther => diagnostics' = diagnostics]_vars
  /\ []((Done /\ DeclThenDeleteMember) => Findings = <<>>)

C3_Witness ==
  /\ Done
  /\ DeclThenDeleteMember
  /\ \E i \in DOMAIN visited : visited[i] = body[2].expr
  /\ Findings = <<>>

\* The visitor is about to visit a unary operation other than delete on an
\* identifier.
AtOtherOpOfIdent ==
  /\ stack # <<>>
  /\ IsUnary(Head(stack))
  /\ Head(stack).op # "Delete"
  /\ Head(stack).arg.kind = "Ident"

\* C4: the visit of a unary operation whose operator is not delete and
\* whose operand is an identifier appends no diagnostic, whatever the
\* operator.
C4_OtherOperatorsInert ==
  [][AtOtherOpOfIdent => diagnostics' = diagnostics]_vars

\* A call on `typeof someVar;` has visited the operation and appended
\* nothing.
C4_Witness ==
  /\ Done
  /\ Len(body) = 1
  /\ body[1].kind = "ExprStmt"
  /\ IsUnary(body[1].expr)
  /\ body[1].expr.op = "TypeOf"
  /\ body[1].expr.arg.kind = "Ident"
  /\ \E i \in DOMAIN visited : visited[i] = body[1].expr
  /\ Findings = <<>>

\* C5: the diagnostics of a context only grow at the end: a call starts
\* from the context it is handed, every step of it keeps what is there and
\* appends at most one diagnostic, a call on a tree without a violation
\* leaves the sequence as it was, and a second call on the same context
\* appends its findings again behind those of the first.
C5_AppendOnly ==
  /\ [][IF stack = <<>>
          THEN diagnostics' = start'
          ELSE /\ IsPrefix(diagnostics, diagnostics')
               /\ Len(diagnostics') <= Len(diagnostics) + 1]_vars
  /\ [](Done => /\ IsPrefix(start, diagnostics)
                /\ Occurrences = <<>> => diagnostics = start)
  /\ []((DoneTwice /\ start = prev.after)
          => diagnostics = prev.after \o PrevFindings)

C5_Witness ==
  /\ DoneTwice
  /\ start = prev.after
  /\ prev.before = <<>>
  /\ start # <<>>
  /\ Len(diagnostics) = 2 * Len(start)

Within(u) == Range(Nodes(<<u.arg>>))

\* C7: a unary operation whose operator is not delete gets no diagnostic
\* and the traversal goes on into its operand: every delete of an
\* identifier anywhere inside the operand is visited and gets its
\* diagnostic.
C7_DescendsIntoOperand ==
  Done =>
    \A u \in Range(Nodes(body)) :
      (IsUnary(u) /\ u.op # "Delete") =>
        /\ Expected(u.span) \notin Range(Findings)
        /\ \A n \in Within(u) :
             Qualifying(n) => /\ n \in Range(visited)
                              /\ Expected(n.span) \in Range(Findings)

\* C8: the unary operations inside the operand of a delete are each
\* visited, one diagnostic per qualifying one; `delete (delete x)` gets
\* exactly one diagnostic, at the inner `delete x`.
C8_NestedDelete ==
  Done =>
    /\ \A u \in Range(Nodes(body)) :
         IsDelete(u) =>
           \A n \in Within(u) :
             /\ IsUnary(n) => n \in Range(visited)
             /\ Qualifying(n) => Expected(n.span) \in Range(Findings)
    /\ (/\ Len(body) = 1
        /\ body[1].kind = "ExprStmt"
        /\ IsDelete(body[1].expr)
        /\ body[1].expr.arg.kind = "Paren"
        /\ Qualifying(body[1].expr.arg.expr))
         => Findings = <<Expected(body[1].expr.arg.expr.span)>>

\* C9: at every moment of a call, each diagnostic it has appended is the
\* expected one of a delete of an identifier in the tree, with that node's
\* span and the fixed code, message and hint; no node is reported twice,
\* so there are at most as many diagnostics as such nodes.
C9_Sound ==
  /\ \A i \in DOMAIN Findings :
       \E k \in DOMAIN Occurrences : Findings[i] = Expected(Occurrences[k].span)
  /\ \A i, j \in DOMAIN Findings :
       Findings[i].span = Findings[j].span => i = j
  /\ Len(Findings) <= Len(Occurrences)

C9_Witness ==
  /\ stack # <<>>
  /\ Len(Findings) = 1
  /\ Len(Occurrences) = 2
  /\ Findings[1] = Expected(Occurrences[1].span)

\* C10: the module form and the script form of the same statements get the
\* same diagnostics from a call on an empty context, neither form is
\* skipped, and the tree is the same after the call as before.
C10_ShapeIndependent ==
  /\ []((DoneTwice /\ start = <<>> /\ prev.before = <<>> /\ prev.type # shape)
          => diagnostics = prev.after)
  /\ [](Done => \A i \in DOMAIN body : body[i] \in Range(visited))
  /\ [][body' = body]_vars

C10_Witness ==
  /\ DoneTwice
  /\ start = <<>>
  /\ prev.before = <<>>
  /\ prev.type = "Module"
  /\ shape = "Script"
  /\ diagnostics # <<>>
  /\ diagnostics = prev.after

====
